---- MODULE Spec2Model ----
(***************************************************************************)
(* A model of the gantry / camera sequencing program Gantry_setup_2.2.py:  *)
(* the grid planner (calculate_grid), the manual motion handlers, the      *)
(* imaging worker thread (_imaging_thread) and the motion controller it    *)
(* talks to.                                                               *)
(*                                                                         *)
(* Numbers.  Positions are integer encoder counts.  The planner works on   *)
(* Python floats; the model computes the same expressions on exact         *)
(* rationals <<n, d>> (d > 0, lowest terms).  On every input the model     *)
(* enumerates, the exact value and the IEEE double value give the same     *)
(* ceil() and int() results.  A text field that does not parse as a        *)
(* number is the pair <<0, 0>>.                                            *)
(***************************************************************************)
EXTENDS Integers, Sequences, FiniteSets, TLC

(* ------------------------------------------------------------------ *)
(* Program constants (IntegratedGantryCameraGUI.__init__)              *)
(* ------------------------------------------------------------------ *)
step_size == 5000
camera_width_px == 9504
camera_height_px == 6336
x_scale == 2500
y_scale == 6250
default_x_limit == 1660768
default_y_limit == 3084965
default_x_dimension == 500000
default_y_dimension == 500000
default_overlap == <<1, 5>>
default_fov_width_mm == <<26829, 100>>

(* ------------------------------------------------------------------ *)
(* Bounds of the model                                                 *)
(* ------------------------------------------------------------------ *)
\* User actions (button presses, key presses) explored in one behaviour.
MaxUiEvents == 7

(* ------------------------------------------------------------------ *)
(* Float arithmetic of calculate_grid, on exact rationals              *)
(* ------------------------------------------------------------------ *)
Abs(n) == IF n < 0 THEN -n ELSE n

RECURSIVE GCD(_, _)
GCD(a, b) == IF b = 0 THEN a ELSE GCD(b, a % b)

\* n/d in lowest terms with a positive denominator (d # 0).
Rat(n, d) ==
    LET g == GCD(Abs(n), Abs(d))
        s == IF d < 0 THEN -1 ELSE 1
    IN  <<(s * n) \div g, (s * d) \div g>>

IsNumeric(v) == v[2] # 0

\* p * q, cancelling across before multiplying.
RMul(p, q) ==
    LET g1 == GCD(Abs(p[1]), q[2])
        g2 == GCD(Abs(q[1]), p[2])
    IN  Rat((p[1] \div g1) * (q[1] \div g2), (p[2] \div g2) * (q[2] \div g1))

\* p / q for q # 0.
RDiv(p, q) == RMul(p, Rat(q[2], q[1]))

\* p - q.
RSub(p, q) == Rat(p[1] * q[2] - q[1] * p[2], p[2] * q[2])

RInt(n) == <<n, 1>>

\* math.ceil(p): the least integer >= p.
Ceil(p) == -((-p[1]) \div p[2])

\* int(p): truncation toward zero.
Trunc(p) == IF p[1] >= 0 THEN p[1] \div p[2] ELSE -((-p[1]) \div p[2])

(* ------------------------------------------------------------------ *)
(* State                                                               *)
(* ------------------------------------------------------------------ *)
VARIABLES
    \* connections
    connected, camera_connected,
    \* positions as the program knows them
    current_x, current_y, start_set, start_x, start_y,
    \* safety limits, their two entry fields, and whether the last
    \* confirmation question of apply_safety_limits was answered No
    x_limit, y_limit, x_limit_var, y_limit_var, limit_declined,
    \* grid plan (has_plan: the attributes x_steps, ... exist)
    overlap, fov_width_mm, x_dimension, y_dimension,
    has_plan, x_steps, y_steps, x_inc, y_inc,
    \* outcome of the last calculate_grid call, and whether it warned
    grid_result, grid_warning, grid_in,
    \* imaging flags and options
    is_imaging, stop_imaging, waiting_for_photo, auto_capture,
    \* status line, open photo prompts, open stop-confirmation box
    status, dialogs, stop_confirm_open,
    \* the imaging worker thread: position in the code and its locals
    pc, row, col, rows_n, cols_n, aim_x, aim_y, image_count,
    \* the motion controller: where the stage is and where it is going
    ctl_pos, ctl_target,
    \* camera information line, and take_both_photos past its commands
    camera_info, shooting,
    \* live threads: imaging workers, gantry connect threads, position pollers
    workers, connect_threads, pollers,
    \* history of the current run (observers, not program state)
    cmd_target, seq_moves, breach, ui_events, run

connVars  == <<connected, camera_connected>>
camVars   == <<camera_info, shooting>>
connThr   == <<connect_threads, pollers>>
thrVars   == <<workers, connThr>>
posVars   == <<current_x, current_y>>
startVars == <<start_set, start_x, start_y>>
limitVars == <<x_limit, y_limit, x_limit_var, y_limit_var, limit_declined>>
planVars  == <<overlap, fov_width_mm, x_dimension, y_dimension,
               has_plan, x_steps, y_steps, x_inc, y_inc,
               grid_result, grid_warning, grid_in>>
flagVars  == <<is_imaging, stop_imaging, waiting_for_photo, auto_capture>>
uiVars    == <<status, dialogs, stop_confirm_open>>
workVars  == <<pc, row, col, rows_n, cols_n, aim_x, aim_y, image_count>>
ctlVars   == <<ctl_pos, ctl_target>>
histVars  == <<cmd_target, seq_moves, breach, run>>

vars == <<connVars, camVars, thrVars, posVars, startVars, limitVars, planVars, flagVars,
          uiVars, workVars, ctlVars, histVars, ui_events>>

\* A text field that is not a number.
NotANumber == <<0, 0>>

\* The observers of a run, before any run.
NoRun ==
    [ outcome      |-> "none",   \* running, complete, stopped, error
      reported     |-> <<0, 0>>, \* the position of the report that ended the last poll
      mode         |-> "none",   \* capture mode read at the last arrival
      arrived      |-> FALSE,    \* the last commanded target was reported
      captured     |-> FALSE,    \* photos were taken at the last arrival
      continued    |-> FALSE,    \* Continue pressed since the wait began
      aborted      |-> FALSE,    \* a limit violation stopped the run
      touched      |-> FALSE,    \* plan or start changed during the run
      stop_seen    |-> FALSE,    \* the stop flag has been true in this run
      moves_after  |-> 0,        \* moves sent since stop_seen
      caps_after   |-> 0,        \* captures since stop_seen
      begun_after  |-> 0,        \* rows/positions begun since stop_seen
      st_sent      |-> FALSE,    \* emergency_stop has sent ST in this run
      pa_after_st  |-> 0,        \* moves sent since st_sent
      direct_ui    |-> {},       \* UI variables set by the imaging thread itself
      confirmed    |-> FALSE,    \* the answer to the question that launched the run
      filter_cmd   |-> "none",   \* the last FILTER command of the run: OFF, ON, or
                                 \* skipped once a camera command was not sent
      shot1        |-> "none",   \* filter_cmd at the first SHUTTER of the last pair
      shot2        |-> "none",   \* filter_cmd at the second SHUTTER of the last pair
      plan0        |-> <<0, 0, 0, 0, 0, 0>> ]
                                 \* start_x, start_y, x_steps, y_steps, x_inc, y_inc
                                 \* when the run was launched

Init ==
    /\ connected = FALSE /\ camera_connected = FALSE
    /\ camera_info = "Camera not connected" /\ shooting = FALSE
    /\ workers = 0 /\ connect_threads = 0 /\ pollers = 0
    /\ current_x = 0 /\ current_y = 0
    /\ start_set = FALSE /\ start_x = 0 /\ start_y = 0
    /\ x_limit = default_x_limit /\ y_limit = default_y_limit
    /\ x_limit_var = RInt(default_x_limit) /\ y_limit_var = RInt(default_y_limit)
    /\ limit_declined = FALSE
    /\ overlap = default_overlap /\ fov_width_mm = default_fov_width_mm
    /\ x_dimension = default_x_dimension /\ y_dimension = default_y_dimension
    /\ has_plan = FALSE /\ x_steps = 0 /\ y_steps = 0 /\ x_inc = 0 /\ y_inc = 0
    /\ grid_result = "none" /\ grid_warning = FALSE
    /\ grid_in = <<NotANumber, NotANumber, NotANumber, NotANumber>>
    /\ is_imaging = FALSE /\ stop_imaging = FALSE
    /\ waiting_for_photo = FALSE /\ auto_capture = TRUE
    /\ status = "Disconnected" /\ dialogs = 0 /\ stop_confirm_open = FALSE
    /\ pc = "idle" /\ row = 0 /\ col = 0 /\ rows_n = 0 /\ cols_n = 0
    /\ aim_x = 0 /\ aim_y = 0 /\ image_count = 0
    /\ ctl_pos = <<0, 0>> /\ ctl_target = <<0, 0>>
    /\ cmd_target = <<0, 0>> /\ seq_moves = <<>> /\ breach = "none" /\ ui_events = 0
    /\ run = NoRun

(* ------------------------------------------------------------------ *)
(* Grid planner                                                        *)
(* ------------------------------------------------------------------ *)
\* The target exceeds a configured safety limit.
ExceedsLimits(x, y) == x > x_limit \/ y > y_limit

\* (mutant) the step without the overlap taken off.
StepMm_NoOverlap(ov, extent) == extent

\* The step along an axis: the field of view less the overlapping part.
StepMm(ov, extent) == RMul(extent, RSub(RInt(1), ov))

\* x_step_mm and y_step_mm for an overlap fraction and a FOV width.
XStepMm(ov, fov) == StepMm(ov, fov)
YStepMm(ov, fov) ==
    LET aspect_ratio  == Rat(camera_height_px, camera_width_px)
        fov_height_mm == RMul(fov, aspect_ratio)
    IN  StepMm(ov, fov_height_mm)

\* (mutant) the count without the closing position.
StepCount_NoPlusOne(dim_mm, step_mm) == Ceil(RDiv(dim_mm, step_mm))

\* Number of positions along an axis: math.ceil(dimension / step) + 1.
StepCount(dim_mm, step_mm) == Ceil(RDiv(dim_mm, step_mm)) + 1

\* Encoder increment for a step: int(step_mm * scale).
StepInc(step_mm, scale) == Trunc(RMul(step_mm, RInt(scale)))

\* The plan or the start position changed since the last run began.
Touch == [run EXCEPT !.touched = TRUE]

\* calculate_grid with the four entry fields ov_pct, xd, yd, fov.
CalculateGrid(ov_pct, xd, yd, fov) ==
    LET ov     == RDiv(ov_pct, RInt(100))
        xdim   == Trunc(RMul(xd, RInt(x_scale)))
        ydim   == Trunc(RMul(yd, RInt(y_scale)))
        x_step == XStepMm(ov, fov)
        y_step == YStepMm(ov, fov)
    IN
    /\ UNCHANGED <<connVars, camVars, thrVars, posVars, startVars, limitVars, flagVars,
                   dialogs, stop_confirm_open, workVars, ctlVars,
                   cmd_target, seq_moves, breach>>
    /\ grid_in' = <<ov_pct, xd, yd, fov>>
    /\ IF ~IsNumeric(ov_pct)
       THEN \* float() of the first field raises ValueError
            /\ grid_result' = "ValueError"
            /\ UNCHANGED <<overlap, fov_width_mm, x_dimension, y_dimension,
                           has_plan, x_steps, y_steps, x_inc, y_inc,
                           grid_warning, status, run>>
       ELSE IF ~(IsNumeric(xd) /\ IsNumeric(yd) /\ IsNumeric(fov))
       THEN \* a later field raises ValueError: the overlap is already stored
            /\ overlap' = ov
            /\ grid_result' = "ValueError"
            /\ UNCHANGED <<fov_width_mm, x_dimension, y_dimension,
                           has_plan, x_steps, y_steps, x_inc, y_inc,
                           grid_warning, status, run>>
       ELSE /\ overlap' = ov
            /\ fov_width_mm' = fov
            /\ x_dimension' = xdim
            /\ y_dimension' = ydim
            /\ grid_warning' = (start_set /\ ExceedsLimits(start_x + xdim, start_y + ydim))
            /\ IF x_step[1] = 0 \/ y_step[1] = 0
               THEN \* dimension / 0.0 raises ZeroDivisionError, which nothing catches
                    /\ grid_result' = "ZeroDivisionError"
                    /\ UNCHANGED <<has_plan, x_steps, y_steps, x_inc, y_inc,
                                   status, run>>
               ELSE /\ x_steps' = StepCount(xd, x_step)
                    /\ y_steps' = StepCount(yd, y_step)
                    /\ x_inc' = StepInc(x_step, x_scale)
                    /\ y_inc' = StepInc(y_step, y_scale)
                    /\ has_plan' = TRUE
                    /\ grid_result' = "ok"
                    /\ status' = "Grid calculation complete"
                    /\ run' = IF has_plan /\ <<x_steps, y_steps, x_inc, y_inc>>
                                             = <<x_steps', y_steps', x_inc', y_inc'>>
                              THEN run ELSE Touch

\* Entry-field values of the planner specification.
OverlapInputs == {<<20, 1>>, <<100, 1>>, <<200, 1>>, NotANumber}
FovInputs     == {<<0, 1>>, <<26829, 100>>, NotANumber}
DimInputs     == {<<-500, 1>>, <<500, 1>>, NotANumber}

CalculateGridAny ==
    /\ UNCHANGED ui_events
    /\ \E ov_pct \in OverlapInputs, xd \in DimInputs, yd \in DimInputs, fov \in FovInputs :
          CalculateGrid(ov_pct, xd, yd, fov)

\* The planner alone: any sequence of calculate_grid calls.
NextGrid == CalculateGridAny

SpecGrid == Init /\ [][NextGrid]_vars

(* ------------------------------------------------------------------ *)
(* Observers                                                           *)
(* ------------------------------------------------------------------ *)
\* A move command (PA x, y;BG) is sent by the operation `by`: the first one
\* whose target exceeds the limits in force is remembered.
Sent(by, x, y) ==
    IF breach = "none" /\ (x > x_limit \/ y > y_limit) THEN by ELSE breach

\* The stop flag is raised: a run in progress has now seen it.
StopNoted(r) == IF is_imaging THEN [r EXCEPT !.stop_seen = TRUE] ELSE r

\* The worker sends a move / takes photos / begins a position or a row.
MoveNoted(r)  == IF r.stop_seen THEN [r EXCEPT !.moves_after = @ + 1] ELSE r
CapNoted(r)   == IF r.stop_seen THEN [r EXCEPT !.caps_after = @ + 1] ELSE r
BeginNoted(r) == IF r.stop_seen THEN [r EXCEPT !.begun_after = @ + 1] ELSE r

\* emergency_stop sends ST while a run is in progress / the worker sends a
\* move after that.
STNoted(r)      == IF is_imaging THEN [r EXCEPT !.st_sent = TRUE] ELSE r
MoveAfterST(r)  == IF r.st_sent THEN [r EXCEPT !.pa_after_st = @ + 1] ELSE r

\* The imaging thread sends FILTER,ON or FILTER,OFF / finds the camera
\* disconnected where it would send a camera command (lines 865, 915, 926).
FilterSent(r, cmd) ==
    IF r.filter_cmd = "skipped" THEN r ELSE [r EXCEPT !.filter_cmd = cmd]
CameraSkipped(r) == [r EXCEPT !.filter_cmd = "skipped"]

\* The imaging thread sets the UI variables `names` itself, not through
\* root.after.
DirectUi(r, names) == [r EXCEPT !.direct_ui = @ \cup names]

(* ------------------------------------------------------------------ *)
(* The motion controller and the position polling thread               *)
(* ------------------------------------------------------------------ *)
\* The stage reaches the commanded position; while connected, the polling
\* thread's next RP round (every 0.2 s) reads it at once.
ControllerArrive ==
    /\ ctl_pos # ctl_target
    /\ UNCHANGED ui_events
    /\ ctl_pos' = ctl_target
    /\ current_x' = IF connected THEN ctl_target[1] ELSE current_x
    /\ current_y' = IF connected THEN ctl_target[2] ELSE current_y
    /\ UNCHANGED <<connVars, camVars, thrVars, startVars, limitVars, planVars, flagVars,
                   uiVars, workVars, ctl_target, histVars>>

\* _poll_position: an RP round of the polling thread that finds the stage
\* elsewhere than last read (it moved while the gantry was disconnected).
PollPosition ==
    /\ connected /\ pollers > 0
    /\ UNCHANGED ui_events
    /\ <<current_x, current_y>> # ctl_pos
    /\ current_x' = ctl_pos[1]
    /\ current_y' = ctl_pos[2]
    /\ UNCHANGED <<connVars, camVars, thrVars, startVars, limitVars, planVars, flagVars,
                   uiVars, workVars, ctlVars, histVars>>

(* ------------------------------------------------------------------ *)
(* Handlers of the UI thread                                           *)
(* ------------------------------------------------------------------ *)
\* (mutant) the photo prompt without its grab: the main window stays in
\* use while a prompt is open.
UiFree_NoGrab == ~stop_confirm_open

\* The main window receives events: no modal window holds them, neither
\* the stop confirmation (askyesno) nor a photo prompt (dialog.grab_set()).
UiFree == ~stop_confirm_open /\ dialogs = 0

\* One more user action is handled.
UiEvent ==
    /\ UiFree
    /\ ui_events < MaxUiEvents
    /\ ui_events' = ui_events + 1

\* connect_gantry: nothing when connected; otherwise a connect thread is
\* started (the Connect button stays enabled until a thread has succeeded).
ConnectGantry ==
    /\ UiEvent
    /\ IF connected
       THEN UNCHANGED <<status, connect_threads>>
       ELSE /\ status' = "Connecting..."
            /\ connect_threads' = connect_threads + 1
    /\ UNCHANGED <<connVars, camVars, workers, pollers, posVars, startVars, limitVars,
                   planVars, flagVars, dialogs, stop_confirm_open, workVars,
                   ctlVars, histVars>>

\* _connect_thread: GOpen succeeds (opened) and the thread sets connected
\* and starts a polling thread, or GOpen raises and the failure is reported.
ConnectThread(opened) ==
    /\ connect_threads > 0
    /\ UNCHANGED ui_events
    /\ connect_threads' = connect_threads - 1
    /\ IF opened
       THEN /\ connected' = TRUE
            /\ status' = "Connected"
            /\ pollers' = pollers + 1
       ELSE /\ status' = "Connection failed"
            /\ UNCHANGED <<connected, pollers>>
    /\ UNCHANGED <<camera_connected, camVars, workers, posVars, startVars, limitVars,
                   planVars, flagVars, dialogs, stop_confirm_open, workVars,
                   ctlVars, histVars>>

ConnectThreadAny == \E opened \in BOOLEAN : ConnectThread(opened)

\* _poll_position, line 643: a polling thread finds connected false and ends.
PollExit ==
    /\ pollers > 0 /\ ~connected
    /\ UNCHANGED ui_events
    /\ pollers' = pollers - 1
    /\ UNCHANGED <<connVars, camVars, workers, connect_threads, posVars, startVars,
                   limitVars, planVars, flagVars, uiVars, workVars, ctlVars,
                   histVars>>

DisconnectGantry ==
    /\ UiEvent /\ connected
    /\ connected' = FALSE
    /\ status' = "Disconnected"
    /\ UNCHANGED <<camera_connected, camVars, thrVars, posVars, startVars, limitVars, planVars,
                   flagVars, dialogs, stop_confirm_open, workVars, ctlVars, histVars>>

ConnectCamera ==
    /\ UiEvent /\ ~camera_connected
    /\ camera_connected' = TRUE
    /\ camera_info' = "Connected"
    /\ UNCHANGED <<connected, shooting, thrVars, posVars, startVars, limitVars, planVars, flagVars,
                   uiVars, workVars, ctlVars, histVars>>

DisconnectCamera ==
    /\ UiEvent /\ camera_connected
    /\ camera_connected' = FALSE
    /\ camera_info' = "Camera not connected"
    /\ UNCHANGED <<connected, shooting, thrVars, posVars, startVars, limitVars, planVars, flagVars,
                   uiVars, workVars, ctlVars, histVars>>

\* int(text): the entry is the text of a whole number (a decimal fraction or
\* any other text raises ValueError).
IsInt(v) == v[2] = 1

\* (mutant) the test for positive values is missing.
ApplySafetyLimits_NoPositiveTest(x_text, y_text, confirm) ==
    /\ UiEvent
    /\ x_limit_var' = x_text /\ y_limit_var' = y_text
    /\ IF ~(IsInt(x_text) /\ IsInt(y_text))
       THEN UNCHANGED <<x_limit, y_limit>> /\ limit_declined' = FALSE
       ELSE IF ~confirm
       THEN UNCHANGED <<x_limit, y_limit>> /\ limit_declined' = TRUE
       ELSE /\ x_limit' = x_text[1] /\ y_limit' = y_text[1]
            /\ limit_declined' = FALSE
    /\ UNCHANGED <<connVars, camVars, thrVars, posVars, startVars, planVars, flagVars,
                   uiVars, workVars, ctlVars, histVars>>

\* apply_safety_limits with the texts of the two entry fields and the answer
\* to its confirmation question.
ApplySafetyLimits(x_text, y_text, confirm) ==
    /\ UiEvent
    /\ x_limit_var' = x_text /\ y_limit_var' = y_text
    /\ IF ~(IsInt(x_text) /\ IsInt(y_text))
       THEN \* ValueError: "Invalid Input"
            UNCHANGED <<x_limit, y_limit>> /\ limit_declined' = FALSE
       ELSE IF x_text[1] <= 0 \/ y_text[1] <= 0
       THEN \* "Invalid Limits"
            UNCHANGED <<x_limit, y_limit>> /\ limit_declined' = FALSE
       ELSE IF ~confirm
       THEN UNCHANGED <<x_limit, y_limit>> /\ limit_declined' = TRUE
       ELSE /\ x_limit' = x_text[1] /\ y_limit' = y_text[1]
            /\ limit_declined' = FALSE
    /\ UNCHANGED <<connVars, camVars, thrVars, posVars, startVars, planVars, flagVars,
                   uiVars, workVars, ctlVars, histVars>>

\* Texts tried in the limit entries: whole numbers negative, zero and
\* positive, a decimal fraction, and a text that is no number.
LimitTexts ==
    { RInt(-step_size), RInt(0), RInt(step_size \div 2), RInt(default_x_limit),
      <<5, 2>>, NotANumber }

ApplySafetyLimitsAnyText ==
    \E x_text \in LimitTexts, y_text \in LimitTexts, confirm \in BOOLEAN :
        ApplySafetyLimits(x_text, y_text, confirm)

\* The limit settings alone: any sequence of apply_safety_limits calls.
NextLimits == ApplySafetyLimitsAnyText

SpecLimits == Init /\ [][NextLimits]_vars

\* (mutant) the jog is sent without the safety-limit check.
MoveGantry_NoLimitCheck(x_change, y_change) ==
    LET new_x == current_x + x_change
        new_y == current_y + y_change
    IN
    /\ UiEvent /\ connected
    /\ ctl_target' = <<new_x, new_y>>
    /\ breach' = Sent("jog", new_x, new_y)
    /\ status' = "Moving"
    /\ UNCHANGED ctl_pos
    /\ UNCHANGED <<connVars, camVars, thrVars, posVars, startVars, limitVars, planVars, flagVars,
                   dialogs, stop_confirm_open, workVars, cmd_target, seq_moves, run>>

\* move_gantry(x_change, y_change): a manual jog.
MoveGantry(x_change, y_change) ==
    LET new_x == current_x + x_change
        new_y == current_y + y_change
    IN
    /\ UiEvent /\ connected
    /\ IF ExceedsLimits(new_x, new_y)
       THEN /\ status' = "Movement blocked by safety limits"
            /\ UNCHANGED <<ctlVars, breach>>
       ELSE /\ ctl_target' = <<new_x, new_y>>
            /\ breach' = Sent("jog", new_x, new_y)
            /\ status' = "Moving"
            /\ UNCHANGED ctl_pos
    /\ UNCHANGED <<connVars, camVars, thrVars, posVars, startVars, limitVars, planVars, flagVars,
                   dialogs, stop_confirm_open, workVars, cmd_target, seq_moves, run>>

\* The arrow keys tried: move_up and move_right, the two directions that
\* lead toward the limits.
JogInputs == {<<0, step_size>>, <<step_size, 0>>}

Jog == \E d \in JogInputs : MoveGantry(d[1], d[2])

\* goto_home: PA 0, 0.
GotoHome ==
    /\ UiEvent /\ connected
    /\ ctl_target' = <<0, 0>>
    /\ breach' = Sent("home", 0, 0)
    /\ status' = "Moving to home position"
    /\ UNCHANGED <<connVars, camVars, thrVars, posVars, startVars, limitVars, planVars, flagVars,
                   dialogs, stop_confirm_open, workVars, ctl_pos,
                   cmd_target, seq_moves, run>>

\* emergency_stop: ST, and the stop flag.
EmergencyStop ==
    /\ UiEvent /\ connected
    /\ ctl_target' = ctl_pos
    /\ status' = "EMERGENCY STOP"
    /\ stop_imaging' = TRUE
    /\ run' = STNoted(StopNoted(run))
    /\ UNCHANGED <<connVars, camVars, thrVars, posVars, startVars, limitVars, planVars,
                   is_imaging, waiting_for_photo, auto_capture,
                   dialogs, stop_confirm_open, workVars, ctl_pos,
                   cmd_target, seq_moves, breach>>

\* set_start_position: the start is the last polled position.
SetStartPosition ==
    /\ UiEvent /\ connected
    /\ start_set' = TRUE
    /\ start_x' = current_x
    /\ start_y' = current_y
    /\ status' = "Start position set"
    /\ run' = IF <<start_set, start_x, start_y>> = <<TRUE, current_x, current_y>>
              THEN run ELSE Touch
    /\ UNCHANGED <<connVars, camVars, thrVars, posVars, limitVars, planVars, flagVars,
                   dialogs, stop_confirm_open, workVars, ctlVars,
                   cmd_target, seq_moves, breach>>

\* return_to_start_position: PA start_x, start_y.
ReturnToStartPosition ==
    /\ UiEvent /\ connected /\ start_set
    /\ ctl_target' = <<start_x, start_y>>
    /\ breach' = Sent("return", start_x, start_y)
    /\ status' = "Returning to start position"
    /\ UNCHANGED <<connVars, camVars, thrVars, posVars, startVars, limitVars, planVars, flagVars,
                   dialogs, stop_confirm_open, workVars, ctl_pos,
                   cmd_target, seq_moves, run>>

\* The Automatic Capture checkbox.
ToggleAutoCapture ==
    /\ UiEvent
    /\ auto_capture' = ~auto_capture
    /\ UNCHANGED <<connVars, camVars, thrVars, posVars, startVars, limitVars, planVars,
                   is_imaging, stop_imaging, waiting_for_photo,
                   uiVars, workVars, ctlVars, histVars>>

\* (mutant) start_imaging_sequence without the is_imaging test.
StartImagingSequence_Reentrant(confirm) ==
    /\ UiEvent
    /\ IF connected /\ camera_connected /\ start_set /\ has_plan /\ confirm
       THEN /\ stop_imaging' = FALSE
            /\ is_imaging' = TRUE
            /\ workers' = workers + 1
            /\ pc' = "filter"
            /\ seq_moves' = <<>>
            /\ run' = [NoRun EXCEPT !.outcome = "running", !.confirmed = confirm,
                                 !.plan0 = <<start_x, start_y, x_steps, y_steps,
                                            x_inc, y_inc>>]
       ELSE UNCHANGED <<stop_imaging, is_imaging, workers, pc, seq_moves, run>>
    /\ UNCHANGED <<connVars, camVars, connThr, posVars, startVars, limitVars, planVars,
                   waiting_for_photo, auto_capture, uiVars,
                   row, col, rows_n, cols_n, aim_x, aim_y, image_count,
                   ctlVars, cmd_target, breach>>

\* (mutant) start_imaging_sequence without the camera test.
StartImagingSequence_NoCamera(confirm) ==
    /\ UiEvent
    /\ IF connected /\ ~is_imaging /\ start_set /\ has_plan /\ confirm
       THEN /\ stop_imaging' = FALSE
            /\ is_imaging' = TRUE
            /\ workers' = workers + 1
            /\ pc' = "filter"
            /\ seq_moves' = <<>>
            /\ run' = [NoRun EXCEPT !.outcome = "running", !.confirmed = confirm,
                                 !.plan0 = <<start_x, start_y, x_steps, y_steps,
                                            x_inc, y_inc>>]
       ELSE UNCHANGED <<stop_imaging, is_imaging, workers, pc, seq_moves, run>>
    /\ UNCHANGED <<connVars, camVars, connThr, posVars, startVars, limitVars, planVars,
                   waiting_for_photo, auto_capture, uiVars,
                   row, col, rows_n, cols_n, aim_x, aim_y, image_count,
                   ctlVars, cmd_target, breach>>

\* start_imaging_sequence: the tests of lines 1134-1143, the confirmation
\* (confirm: the user's answer), and the worker thread is started; in every
\* other case the call returns with nothing changed.
StartImagingSequence(confirm) ==
    /\ UiEvent
    /\ IF /\ connected /\ ~is_imaging /\ camera_connected
          /\ start_set
          /\ has_plan
          /\ confirm
       THEN /\ stop_imaging' = FALSE
            /\ is_imaging' = TRUE
            /\ workers' = workers + 1
            /\ pc' = "filter"
            /\ seq_moves' = <<>>
            /\ run' = [NoRun EXCEPT !.outcome = "running", !.confirmed = confirm,
                                 !.plan0 = <<start_x, start_y, x_steps, y_steps,
                                            x_inc, y_inc>>]
       ELSE UNCHANGED <<stop_imaging, is_imaging, workers, pc, seq_moves, run>>
    /\ UNCHANGED <<connVars, camVars, connThr, posVars, startVars, limitVars, planVars,
                   waiting_for_photo, auto_capture, uiVars,
                   row, col, rows_n, cols_n, aim_x, aim_y, image_count,
                   ctlVars, cmd_target, breach>>

StartImagingSequenceAny == \E confirm \in BOOLEAN : StartImagingSequence(confirm)

\* stop_imaging_sequence up to its confirmation box.
StopImagingSequence ==
    /\ UiEvent /\ is_imaging
    /\ stop_confirm_open' = TRUE
    /\ UNCHANGED <<connVars, camVars, thrVars, posVars, startVars, limitVars, planVars, flagVars,
                   status, dialogs, workVars, ctlVars, histVars>>

\* The confirmation box answered: yes raises the stop flag.
StopConfirm(yes) ==
    /\ stop_confirm_open
    /\ UNCHANGED ui_events
    /\ stop_confirm_open' = FALSE
    /\ IF yes
       THEN /\ stop_imaging' = TRUE
            /\ status' = "Stopping imaging sequence..."
            /\ run' = StopNoted(run)
       ELSE UNCHANGED <<stop_imaging, status, run>>
    /\ UNCHANGED <<connVars, camVars, thrVars, posVars, startVars, limitVars, planVars,
                   is_imaging, waiting_for_photo, auto_capture,
                   dialogs, workVars, ctlVars, cmd_target, seq_moves, breach>>

\* Continue in a photo prompt, which holds the grab: on_continue.
OnContinue ==
    /\ dialogs > 0
    /\ ui_events < MaxUiEvents
    /\ ui_events' = ui_events + 1
    /\ waiting_for_photo' = FALSE
    /\ dialogs' = dialogs - 1
    /\ run' = IF pc = "wait" THEN [run EXCEPT !.continued = TRUE] ELSE run
    /\ UNCHANGED <<connVars, camVars, thrVars, posVars, startVars, limitVars, planVars,
                   is_imaging, stop_imaging, auto_capture,
                   status, stop_confirm_open, workVars, ctlVars,
                   cmd_target, seq_moves, breach>>

(* ------------------------------------------------------------------ *)
(* The imaging worker thread: _imaging_thread                          *)
(* ------------------------------------------------------------------ *)
\* (mutant) the failed command is tried again.
Fail_Retry ==
    /\ status' = "Imaging error"
    /\ is_imaging' = is_imaging
    /\ pc' = pc

\* except Exception: the error status, and the run is over.
Fail ==
    /\ status' = "Imaging error"
    /\ is_imaging' = FALSE
    /\ pc' = "idle"

\* The thread has ended: its local variables are gone.
LocalsGone ==
    /\ row' = 0 /\ col' = 0 /\ rows_n' = 0 /\ cols_n' = 0
    /\ aim_x' = 0 /\ aim_y' = 0

\* Moving on from position col of the current row: the next position or the
\* end of the row (the inner for loop).
Advance ==
    IF col + 1 < cols_n
    THEN col' = col + 1 /\ pc' = "col_begin"
    ELSE col' = col /\ pc' = "row_end"

\* The reply to RP, compared as text with the expected 'x, y': equal only
\* when the reply has that very format and the numbers are the same.
ReplyMatches(canonical, x, y) == canonical /\ ctl_pos = <<x, y>>

\* The observers of a run that has ended with `outcome`.
Ended(r, outcome) ==
    [r EXCEPT !.outcome = outcome, !.reported = <<0, 0>>, !.mode = "none",
              !.arrived = FALSE, !.captured = FALSE, !.continued = FALSE]

\* except Exception, lines 1321-1326: a command to the controller failed.
W_fail ==
    /\ Fail
    /\ LocalsGone
    /\ run' = Ended(run, "error")
    /\ cmd_target' = <<0, 0>>
    /\ workers' = workers - 1
    /\ UNCHANGED <<connVars, camVars, connThr, posVars, startVars, limitVars, planVars,
                   stop_imaging, waiting_for_photo, auto_capture,
                   dialogs, stop_confirm_open, image_count,
                   ctlVars, seq_moves, breach>>

\* The camera information line after send_camera_command, whose write to
\* the serial port went through (io_ok) or raised.
SendCameraCommandInfo(io_ok) == IF io_ok THEN "ESP32 reply" ELSE "Command error"

\* The camera information line after control_filter(False).
ControlFilterInfo(io_ok) == IF io_ok THEN "Filter moved away" ELSE "Command error"

\* Lines 1203-1208: status, and the filter is moved out.
W_filter ==
    /\ pc = "filter"
    /\ UNCHANGED ui_events
    /\ status' = "Moving to start position..."
    /\ IF camera_connected
       THEN /\ \E io_ok \in BOOLEAN : camera_info' = ControlFilterInfo(io_ok)
            /\ run' = FilterSent(DirectUi(run, {"status_var", "camera_info_var"}),
                                  "OFF")
       ELSE /\ UNCHANGED camera_info
            /\ run' = CameraSkipped(DirectUi(run, {"status_var"}))
    /\ pc' = "move_start"
    /\ UNCHANGED <<connVars, shooting, thrVars, posVars, startVars, limitVars, planVars, flagVars,
                   dialogs, stop_confirm_open,
                   row, col, rows_n, cols_n, aim_x, aim_y, image_count,
                   ctlVars, cmd_target, seq_moves, breach>>

\* Line 1211: PA start_x, start_y.
W_move_start ==
    /\ pc = "move_start"
    /\ UNCHANGED ui_events
    /\ IF ~connected
       THEN W_fail
       ELSE /\ ctl_target' = <<start_x, start_y>>
            /\ cmd_target' = <<start_x, start_y>>
            /\ breach' = Sent("seq_start", start_x, start_y)
            /\ run' = [MoveAfterST(MoveNoted(run)) EXCEPT !.arrived = FALSE]
            /\ pc' = "poll_start"
            /\ UNCHANGED <<connVars, camVars, thrVars, posVars, startVars, limitVars, planVars,
                           flagVars, uiVars,
                           row, col, rows_n, cols_n, aim_x, aim_y, image_count,
                           ctl_pos, seq_moves>>

\* (mutant) the wait for the start position is left at once, matched or not.
W_poll_start_NoWait ==
    /\ pc = "poll_start"
    /\ UNCHANGED ui_events
    /\ pc' = "after_start"
    /\ UNCHANGED <<connVars, camVars, thrVars, posVars, startVars, limitVars, planVars,
                   flagVars, uiVars,
                   row, col, rows_n, cols_n, aim_x, aim_y, image_count,
                   ctlVars, histVars>>

\* Lines 1214-1220: one round of the wait for the start position, which is
\* read again from start_x, start_y at every round.
W_poll_start ==
    /\ pc = "poll_start"
    /\ UNCHANGED ui_events
    /\ IF stop_imaging
       THEN /\ pc' = "after_start"
            /\ UNCHANGED <<connVars, camVars, thrVars, posVars, startVars, limitVars, planVars,
                           flagVars, uiVars,
                           row, col, rows_n, cols_n, aim_x, aim_y, image_count,
                           ctlVars, histVars>>
       ELSE IF ~connected
       THEN W_fail
       ELSE /\ \E canonical \in BOOLEAN :
                IF ReplyMatches(canonical, start_x, start_y)
                THEN /\ pc' = "after_start"
                     /\ run' = [run EXCEPT !.arrived = TRUE, !.reported = ctl_pos]
                ELSE /\ pc' = "poll_start"
                     /\ UNCHANGED run
            /\ UNCHANGED <<connVars, camVars, thrVars, posVars, startVars, limitVars, planVars,
                           flagVars, uiVars,
                           row, col, rows_n, cols_n, aim_x, aim_y, image_count,
                           ctlVars, cmd_target, seq_moves, breach>>

\* Lines 1224-1236: stopped before the grid, or the grid begins.
W_after_start ==
    /\ pc = "after_start"
    /\ UNCHANGED ui_events
    /\ IF stop_imaging
       THEN /\ status' = "Imaging sequence stopped"
            /\ is_imaging' = FALSE
            /\ pc' = "idle"
            /\ LocalsGone
            /\ run' = Ended(run, "stopped")
            /\ cmd_target' = <<0, 0>>
            /\ workers' = workers - 1
            /\ UNCHANGED image_count
       ELSE /\ status' = "Imaging sequence started"
            /\ image_count' = 0
            /\ rows_n' = y_steps
            /\ row' = 0
            /\ pc' = IF y_steps > 0 THEN "row_begin" ELSE "finish"
            /\ UNCHANGED <<is_imaging, run, cmd_target, col, cols_n, aim_x, aim_y,
                           workers>>
    /\ UNCHANGED <<connVars, camVars, connThr, posVars, startVars, limitVars, planVars,
                   stop_imaging, waiting_for_photo, auto_capture,
                   dialogs, stop_confirm_open,
                   ctlVars, seq_moves, breach>>

\* (mutant) every row starts again at start_x: a raster, not a snake.
W_row_begin_Raster ==
    /\ pc = "row_begin"
    /\ UNCHANGED ui_events
    /\ IF row = 0
       THEN aim_x' = start_x /\ aim_y' = start_y
       ELSE aim_x' = start_x /\ aim_y' = aim_y + y_inc
    /\ cols_n' = x_steps
    /\ col' = 0
    /\ pc' = IF x_steps > 0 THEN "col_begin" ELSE "row_end"
    /\ run' = run
    /\ UNCHANGED <<connVars, camVars, thrVars, posVars, startVars, limitVars, planVars, flagVars,
                   uiVars, row, rows_n, image_count,
                   ctlVars, cmd_target, seq_moves, breach>>

\* Lines 1236-1245: the first target of a row, and the row's range.
W_row_begin ==
    /\ pc = "row_begin"
    /\ UNCHANGED ui_events
    /\ IF row = 0
       THEN aim_x' = start_x /\ aim_y' = start_y
       ELSE aim_x' = aim_x /\ aim_y' = aim_y + y_inc
    /\ cols_n' = x_steps
    /\ col' = 0
    /\ pc' = IF x_steps > 0 THEN "col_begin" ELSE "row_end"
    /\ UNCHANGED run
    /\ UNCHANGED <<connVars, camVars, thrVars, posVars, startVars, limitVars, planVars, flagVars,
                   uiVars, row, rows_n, image_count,
                   ctlVars, cmd_target, seq_moves, breach>>

\* (mutant) every row runs toward +x.
W_col_begin_OneWay ==
    /\ pc = "col_begin"
    /\ UNCHANGED ui_events
    /\ aim_x' = IF col = 0 THEN aim_x ELSE aim_x + x_inc
    /\ pc' = IF stop_imaging THEN "row_end" ELSE "chk_limit"
    /\ run' = IF stop_imaging THEN run ELSE BeginNoted(run)
    /\ UNCHANGED <<connVars, camVars, thrVars, posVars, startVars, limitVars, planVars, flagVars,
                   uiVars, row, col, rows_n, cols_n, aim_y, image_count,
                   ctlVars, cmd_target, seq_moves, breach>>

\* (mutant) the stop check at the head of a position is missing.
W_col_begin_NoStopCheck ==
    /\ pc = "col_begin"
    /\ UNCHANGED ui_events
    /\ aim_x' = IF col = 0 THEN aim_x
                ELSE IF row % 2 = 0 THEN aim_x + x_inc ELSE aim_x - x_inc
    /\ pc' = "chk_limit"
    /\ run' = BeginNoted(run)
    /\ UNCHANGED <<connVars, camVars, thrVars, posVars, startVars, limitVars, planVars, flagVars,
                   uiVars, row, col, rows_n, cols_n, aim_y, image_count,
                   ctlVars, cmd_target, seq_moves, breach>>

\* Lines 1246-1254: the next target along the row, then the stop check.
W_col_begin ==
    /\ pc = "col_begin"
    /\ UNCHANGED ui_events
    /\ aim_x' = IF col = 0 THEN aim_x
                ELSE IF row % 2 = 0 THEN aim_x + x_inc ELSE aim_x - x_inc
    /\ pc' = IF stop_imaging THEN "row_end" ELSE "chk_limit"
    /\ run' = IF stop_imaging THEN run ELSE BeginNoted(run)
    /\ UNCHANGED <<connVars, camVars, thrVars, posVars, startVars, limitVars, planVars, flagVars,
                   uiVars, row, col, rows_n, cols_n, aim_y, image_count,
                   ctlVars, cmd_target, seq_moves, breach>>

\* (mutant) the safety-limit check is missing.
W_chk_limit_NoCheck ==
    /\ pc = "chk_limit"
    /\ UNCHANGED ui_events
    /\ pc' = "move"
    /\ UNCHANGED <<connVars, camVars, thrVars, posVars, startVars, limitVars, planVars, flagVars,
                   uiVars, row, col, rows_n, cols_n, aim_x, aim_y, image_count,
                   ctlVars, histVars>>

\* Lines 1256-1261: the safety-limit check of the target.
W_chk_limit ==
    /\ pc = "chk_limit"
    /\ UNCHANGED ui_events
    /\ IF ExceedsLimits(aim_x, aim_y)
       THEN /\ status' = "Position exceeds safety limits - stopping sequence"
            /\ stop_imaging' = TRUE
            /\ run' = [StopNoted(run) EXCEPT !.aborted = TRUE]
            /\ pc' = "row_end"
       ELSE /\ pc' = "move"
            /\ UNCHANGED <<status, stop_imaging, run>>
    /\ UNCHANGED <<connVars, camVars, thrVars, posVars, startVars, limitVars, planVars,
                   is_imaging, waiting_for_photo, auto_capture,
                   dialogs, stop_confirm_open,
                   row, col, rows_n, cols_n, aim_x, aim_y, image_count,
                   ctlVars, cmd_target, seq_moves, breach>>

\* Lines 1264-1268: PA aim_x, aim_y.
W_move ==
    /\ pc = "move"
    /\ UNCHANGED ui_events
    /\ IF ~connected
       THEN W_fail
       ELSE /\ ctl_target' = <<aim_x, aim_y>>
            /\ cmd_target' = <<aim_x, aim_y>>
            /\ seq_moves' = Append(seq_moves, <<aim_x, aim_y>>)
            /\ breach' = Sent("seq_step", aim_x, aim_y)
            /\ run' = [MoveAfterST(MoveNoted(run)) EXCEPT !.arrived = FALSE]
            /\ status' = "Moving to position"
            /\ pc' = "poll"
            /\ UNCHANGED <<connVars, camVars, thrVars, posVars, startVars, limitVars, planVars,
                           flagVars, dialogs, stop_confirm_open,
                           row, col, rows_n, cols_n, aim_x, aim_y, image_count,
                           ctl_pos>>

\* Lines 1271-1277: one round of the wait for the target aim_x, aim_y.
W_poll ==
    /\ pc = "poll"
    /\ UNCHANGED ui_events
    /\ IF stop_imaging
       THEN /\ pc' = "arrived"
            /\ UNCHANGED <<connVars, camVars, thrVars, posVars, startVars, limitVars, planVars,
                           flagVars, uiVars,
                           row, col, rows_n, cols_n, aim_x, aim_y, image_count,
                           ctlVars, histVars>>
       ELSE IF ~connected
       THEN W_fail
       ELSE /\ \E canonical \in BOOLEAN :
                IF ReplyMatches(canonical, aim_x, aim_y)
                THEN /\ pc' = "arrived"
                     /\ run' = [run EXCEPT !.arrived = TRUE, !.reported = ctl_pos]
                ELSE /\ pc' = "poll"
                     /\ UNCHANGED run
            /\ UNCHANGED <<connVars, camVars, thrVars, posVars, startVars, limitVars, planVars,
                           flagVars, uiVars,
                           row, col, rows_n, cols_n, aim_x, aim_y, image_count,
                           ctlVars, cmd_target, seq_moves, breach>>

\* Lines 1279-1301: stopped, or the image is counted and the capture mode
\* read: automatic goes on to take the photos, manual opens the prompt.
W_arrived ==
    /\ pc = "arrived"
    /\ UNCHANGED ui_events
    /\ IF stop_imaging
       THEN /\ pc' = "row_end"
            /\ UNCHANGED <<image_count, status, waiting_for_photo, dialogs, run>>
       ELSE /\ image_count' = image_count + 1
            /\ status' = "Position: Image"
            /\ IF auto_capture
               THEN /\ pc' = "capture"
                    /\ run' = [run EXCEPT !.mode = "auto", !.captured = FALSE]
                    /\ UNCHANGED <<waiting_for_photo, dialogs>>
               ELSE /\ pc' = "wait"
                    /\ waiting_for_photo' = TRUE
                    /\ dialogs' = dialogs + 1
                    /\ run' = [run EXCEPT !.mode = "manual", !.continued = FALSE,
                                           !.captured = FALSE]
    /\ UNCHANGED <<connVars, camVars, thrVars, posVars, startVars, limitVars, planVars,
                   is_imaging, stop_imaging, auto_capture, stop_confirm_open,
                   row, col, rows_n, cols_n, aim_x, aim_y,
                   ctlVars, cmd_target, seq_moves, breach>>

\* (mutant) take_both_photos without its closing FILTER,OFF.
W_capture_NoFilterOff ==
    /\ pc = "capture"
    /\ UNCHANGED ui_events
    /\ IF ~shooting
       THEN IF ~camera_connected
            THEN \* line 926: nothing without a camera
                 /\ Advance
                 /\ UNCHANGED camVars
                 /\ run' = CameraSkipped(run)
            ELSE \* lines 933-946: SHUTTER, FILTER,ON, whose results are not
                 \* looked at
                 /\ \E io_ok \in BOOLEAN :
                        camera_info' = SendCameraCommandInfo(io_ok)
                 /\ shooting' = TRUE
                 /\ run' = FilterSent(
                              DirectUi([CapNoted(run) EXCEPT !.captured = TRUE,
                                                             !.shot1 = run.filter_cmd,
                                                             !.shot2 = "none"],
                                       {"camera_info_var"}),
                              "ON")
                 /\ UNCHANGED <<pc, col>>
       ELSE \* lines 953-961: SHUTTER, FILTER,OFF (send_camera_command sends
            \* nothing without a camera), then the closing line
            /\ camera_info' = "Successfully captured both photos"
            /\ shooting' = FALSE
            /\ Advance
            /\ run' = IF camera_connected
                      THEN DirectUi([run EXCEPT !.shot2 = run.filter_cmd],
                                    {"camera_info_var"})
                      ELSE CameraSkipped(DirectUi(run, {"camera_info_var"}))
    /\ UNCHANGED <<connVars, thrVars, posVars, startVars, limitVars, planVars, flagVars,
                   uiVars, row, rows_n, cols_n, aim_x, aim_y, image_count,
                   ctlVars, cmd_target, seq_moves, breach>>

\* Lines 1292-1293: take_both_photos, which does nothing without a camera:
\* SHUTTER and FILTER,ON, then SHUTTER, FILTER,OFF and the closing line.
W_capture ==
    /\ pc = "capture"
    /\ UNCHANGED ui_events
    /\ IF ~shooting
       THEN IF ~camera_connected
            THEN \* line 926: nothing without a camera
                 /\ Advance
                 /\ UNCHANGED camVars
                 /\ run' = CameraSkipped(run)
            ELSE \* lines 933-946: SHUTTER, FILTER,ON, whose results are not
                 \* looked at
                 /\ \E io_ok \in BOOLEAN :
                        camera_info' = SendCameraCommandInfo(io_ok)
                 /\ shooting' = TRUE
                 /\ run' = FilterSent(
                              DirectUi([CapNoted(run) EXCEPT !.captured = TRUE,
                                                             !.shot1 = run.filter_cmd,
                                                             !.shot2 = "none"],
                                       {"camera_info_var"}),
                              "ON")
                 /\ UNCHANGED <<pc, col>>
       ELSE \* lines 953-961: SHUTTER, FILTER,OFF (send_camera_command sends
            \* nothing without a camera), then the closing line
            /\ camera_info' = "Successfully captured both photos"
            /\ shooting' = FALSE
            /\ Advance
            /\ run' = IF camera_connected
                      THEN FilterSent(DirectUi([run EXCEPT !.shot2 = run.filter_cmd],
                                               {"camera_info_var"}),
                                      "OFF")
                      ELSE CameraSkipped(DirectUi(run, {"camera_info_var"}))
    /\ UNCHANGED <<connVars, thrVars, posVars, startVars, limitVars, planVars, flagVars,
                   uiVars, row, rows_n, cols_n, aim_x, aim_y, image_count,
                   ctlVars, cmd_target, seq_moves, breach>>

\* (mutant) the wait for the user's confirmation is missing.
W_wait_NoWait ==
    /\ pc = "wait"
    /\ UNCHANGED ui_events
    /\ Advance
    /\ UNCHANGED <<connVars, camVars, thrVars, posVars, startVars, limitVars, planVars, flagVars,
                   uiVars, row, rows_n, cols_n, aim_x, aim_y, image_count,
                   ctlVars, histVars>>

\* Lines 1303-1305: the wait for the user's confirmation.
W_wait ==
    /\ pc = "wait"
    /\ UNCHANGED ui_events
    /\ ~(waiting_for_photo /\ ~stop_imaging)
    /\ Advance
    /\ UNCHANGED <<connVars, camVars, thrVars, posVars, startVars, limitVars, planVars, flagVars,
                   uiVars, row, rows_n, cols_n, aim_x, aim_y, image_count,
                   ctlVars, histVars>>

\* Lines 1307-1308 and the outer for loop: the next row, or out.
W_row_end ==
    /\ pc = "row_end"
    /\ UNCHANGED ui_events
    /\ IF ~stop_imaging /\ row + 1 < rows_n
       THEN row' = row + 1 /\ pc' = "row_begin"
       ELSE row' = row /\ pc' = "finish"
    /\ UNCHANGED <<connVars, camVars, thrVars, posVars, startVars, limitVars, planVars, flagVars,
                   uiVars, col, rows_n, cols_n, aim_x, aim_y, image_count,
                   ctlVars, histVars>>

\* Lines 1310-1319: the final status, and the run is over.
W_finish ==
    /\ pc = "finish"
    /\ UNCHANGED ui_events
    /\ IF ~stop_imaging
       THEN /\ status' = "Imaging sequence complete"
            /\ run' = Ended(run, "complete")
       ELSE /\ status' = "Imaging sequence stopped"
            /\ run' = Ended(run, "stopped")
    /\ is_imaging' = FALSE
    /\ pc' = "idle"
    /\ LocalsGone
    /\ cmd_target' = <<0, 0>>
    /\ workers' = workers - 1
    /\ UNCHANGED <<connVars, camVars, connThr, posVars, startVars, limitVars, planVars,
                   stop_imaging, waiting_for_photo, auto_capture,
                   dialogs, stop_confirm_open, image_count,
                   ctlVars, seq_moves, breach>>

Worker ==
    \/ W_filter \/ W_move_start \/ W_poll_start \/ W_after_start
    \/ W_row_begin \/ W_col_begin \/ W_chk_limit \/ W_move \/ W_poll
    \/ W_arrived \/ W_capture \/ W_wait \/ W_row_end \/ W_finish

(* ------------------------------------------------------------------ *)
(* The program                                                         *)
(* ------------------------------------------------------------------ *)
\* Entry-field values tried while the sequencer is explored: overlap 20 %,
\* FOV 268.29 mm, areas giving 2 x 3 and 3 x 2 grids.
SeqGridInputs ==
    { <<<<20, 1>>, <<100, 1>>, <<200, 1>>, <<26829, 100>>>>,
      <<<<20, 1>>, <<300, 1>>, <<100, 1>>, <<26829, 100>>>> }

\* Safety limits tried: a tight x limit and the defaults.
LimitInputs ==
    { <<step_size \div 2, default_y_limit>>,
      <<default_x_limit, default_y_limit>> }

CalculateGridSeq ==
    /\ UiEvent
    /\ \E in \in SeqGridInputs : CalculateGrid(in[1], in[2], in[3], in[4])

ApplySafetyLimitsAny ==
    \E in \in LimitInputs : ApplySafetyLimits(RInt(in[1]), RInt(in[2]), TRUE)

StopConfirmAny == \E yes \in BOOLEAN : StopConfirm(yes)

Next ==
    \/ ControllerArrive \/ PollPosition \/ PollExit
    \/ ConnectGantry \/ ConnectThreadAny \/ DisconnectGantry \/ ConnectCamera \/ DisconnectCamera
    \/ ApplySafetyLimitsAny \/ Jog \/ GotoHome \/ EmergencyStop
    \/ SetStartPosition \/ ReturnToStartPosition \/ ToggleAutoCapture
    \/ CalculateGridSeq
    \/ StartImagingSequenceAny \/ StopImagingSequence \/ StopConfirmAny
    \/ OnContinue
    \/ Worker

Spec == Init /\ [][Next]_vars

\* Safety limits tried with the planner: an x limit between the width of
\* the smallest area tried and the extent of its grid, and the defaults.
PlanLimitInputs ==
    { <<default_x_dimension, default_y_limit>>,
      <<default_x_limit, default_y_limit>> }

ApplySafetyLimitsPlan ==
    \E in \in PlanLimitInputs : ApplySafetyLimits(RInt(in[1]), RInt(in[2]), TRUE)

\* The planner with what its safety check reads: the start position (set
\* where the stage was jogged to) and the limits.
NextPlan ==
    \/ ConnectGantry \/ ConnectThreadAny
    \/ Jog \/ ControllerArrive
    \/ SetStartPosition
    \/ ApplySafetyLimitsPlan
    \/ CalculateGridSeq

SpecPlan == Init /\ [][NextPlan]_vars

\* The program with its scheduling: the imaging thread keeps running, the
\* stage reaches the position last commanded, and the user answers the
\* dialogs that are open (the photo prompt, the stop confirmation).
SpecLive ==
    /\ Spec
    /\ WF_vars(Worker)
    /\ WF_vars(ControllerArrive)
    /\ WF_vars(OnContinue)
    /\ WF_vars(StopConfirmAny)

(* ------------------------------------------------------------------ *)
(* The grid planner's claims, checked under SpecGrid                   *)
(* ------------------------------------------------------------------ *)
\* All four entry fields of the last calculate_grid call held numbers.
AllNumeric(in) == \A i \in 1..4 : IsNumeric(in[i])

\* C5 (as stated): after any calculate_grid calls with numeric inputs the
\* stored column count x_steps and row count y_steps are both >= 1.
C5_CountsAtLeastOne == has_plan => (x_steps >= 1 /\ y_steps >= 1)

\* c = ceil(r) and t = trunc(r) for a rational r with positive denominator,
\* said by inequalities instead of by division.
C6_IsCeil(c, r) == (c - 1) * r[2] < r[1] /\ r[1] <= c * r[2]
C6_IsTrunc(t, r) ==
    IF r[1] >= 0
    THEN t * r[2] <= r[1] /\ r[1] < (t + 1) * r[2]
    ELSE (t - 1) * r[2] < r[1] /\ r[1] <= t * r[2]

\* The closed form of the step: fov * (1 - overlap), overlap given in percent.
C6_Step(ov_pct, fov) == RMul(fov, RSub(RInt(1), RDiv(ov_pct, RInt(100))))

\* C6: after a calculate_grid call that completed, per axis the step is
\* fov * (1 - overlap) with fov height = fov width * 6336/9504, the count is
\* ceil(area / step) + 1 and the increment is the truncation of step * scale
\* (2500 in x, 6250 in y); overlap 0.2, FOV 268.29 mm and 500 mm x 500 mm
\* give 4 columns, 5 rows and increments 536580 and 894300.
C6_ClosedForm ==
    grid_result = "ok" =>
        LET xs == C6_Step(grid_in[1], grid_in[4])
            ys == C6_Step(grid_in[1], RMul(grid_in[4], Rat(6336, 9504)))
        IN  /\ C6_IsCeil(x_steps - 1, RDiv(grid_in[2], xs))
            /\ C6_IsCeil(y_steps - 1, RDiv(grid_in[3], ys))
            /\ C6_IsTrunc(x_inc, RMul(xs, RInt(2500)))
            /\ C6_IsTrunc(y_inc, RMul(ys, RInt(6250)))
            /\ grid_in = <<<<20, 1>>, <<500, 1>>, <<500, 1>>, <<26829, 100>>>>
                 => /\ x_steps = 4 /\ y_steps = 5
                    /\ x_inc = 536580 /\ y_inc = 894300

\* The documented example has been planned.
C6_Witness ==
    /\ grid_result = "ok"
    /\ grid_in = <<<<20, 1>>, <<500, 1>>, <<500, 1>>, <<26829, 100>>>>
    /\ x_steps = 4 /\ y_steps = 5

\* C7 (as stated): with numeric inputs calculate_grid fails with a division
\* by zero for every overlap >= 1 and completes, storing a plan, for every
\* overlap < 1.
C7_FailsIffOverlapAtLeastOne ==
    AllNumeric(grid_in) =>
        IF grid_in[1][1] >= 100 * grid_in[1][2]
        THEN grid_result = "ZeroDivisionError"
        ELSE grid_result = "ok" /\ has_plan

\* C7 (amended): with numeric inputs calculate_grid fails with a division by
\* zero exactly when the step fov * (1 - overlap) is zero, that is when the
\* overlap is exactly 1 or the FOV width is 0; in every other case, overlap
\* above 1 included, it completes and stores a plan.
C7_FailsIffStepZero ==
    AllNumeric(grid_in) =>
        IF grid_in[1] = <<100, 1>> \/ grid_in[4][1] = 0
        THEN grid_result = "ZeroDivisionError"
        ELSE grid_result = "ok" /\ has_plan

\* An overlap of 200 % has been planned without a failure.
C7_Witness ==
    /\ AllNumeric(grid_in)
    /\ grid_in[1] = <<200, 1>>
    /\ grid_in[4][1] # 0
    /\ grid_result = "ok"
    /\ has_plan

(* ------------------------------------------------------------------ *)
(* The sequencer's claims, checked under Spec                          *)
(* ------------------------------------------------------------------ *)
\* C1: in the grid traversal, when the limit check finds the target beyond
\* x_limit or y_limit the run aborts (stop flag set, loops left) with no
\* move sent for that target, and from then on the aborted run sends no
\* move at all and keeps the stop flag raised.
C1_LimitAbort ==
    /\ [][ /\ (pc = "chk_limit" /\ pc' # "chk_limit" /\ ExceedsLimits(aim_x, aim_y))
              => /\ stop_imaging' /\ run'.aborted
                 /\ pc' = "row_end"
                 /\ seq_moves' = seq_moves
                 /\ ctl_target' = ctl_target
           /\ (run.aborted /\ run'.aborted)
              => /\ seq_moves' = seq_moves
                 /\ pc' \in {"row_end", "finish", "idle"}
         ]_vars
    /\ [](run.aborted /\ is_imaging => stop_imaging)

\* A run has been aborted by the limit check after at least one move.
C1_Witness ==
    /\ run.aborted
    /\ run.outcome = "stopped"
    /\ Len(seq_moves) >= 1

\* C2 (as stated): no move command whose target exceeds the safety limits
\* in force is ever sent to the controller, whichever operation sends it.
C2_EveryMoveChecked == breach = "none"

\* The cells of the stored plan, from the stored start position.
Cells ==
    { <<start_x + i * x_inc, start_y + j * y_inc>> :
        i \in 0 .. (x_steps - 1), j \in 0 .. (y_steps - 1) }

\* C3: for a plan of N columns and M rows with positive increments, left
\* alone together with the start position while the run lasts, a run that
\* completes (neither stopped nor aborted) has commanded exactly N*M grid
\* targets, which are exactly the cells, each one once.
C3_EveryCellOnce ==
    ( /\ run.outcome = "complete" /\ ~run.touched
      /\ x_steps >= 1 /\ y_steps >= 1 /\ x_inc > 0 /\ y_inc > 0 )
    => /\ Len(seq_moves) = x_steps * y_steps
       /\ {seq_moves[k] : k \in 1 .. Len(seq_moves)} = Cells
       /\ \A k1, k2 \in 1 .. Len(seq_moves) :
              k1 # k2 => seq_moves[k1] # seq_moves[k2]

\* A run over a plan of at least two columns and two rows has completed.
C3_Witness ==
    /\ run.outcome = "complete" /\ ~run.touched
    /\ x_steps >= 2 /\ y_steps >= 2 /\ x_inc > 0 /\ y_inc > 0
    /\ Len(seq_moves) = x_steps * y_steps

\* C4: in the sequence of grid targets of a run whose plan and start were
\* left alone, a target and its successor in the same row differ by +x_inc
\* in x in an even row and by -x_inc in an odd row with y equal, and across
\* a row boundary x is equal and y grows by exactly y_inc.
C4_Snake ==
    (run.outcome # "none" /\ ~run.touched /\ x_steps >= 1) =>
        \A k \in 1 .. (Len(seq_moves) - 1) :
            LET a == seq_moves[k]
                b == seq_moves[k + 1]
                r == (k - 1) \div x_steps
            IN  IF k % x_steps # 0
                THEN /\ b[2] = a[2]
                     /\ b[1] = a[1] + (IF r % 2 = 0 THEN x_inc ELSE -x_inc)
                ELSE /\ b[1] = a[1]
                     /\ b[2] = a[2] + y_inc

\* A run has gone through an even row, an odd row and into a third row.
C4_Witness ==
    /\ run.outcome # "none" /\ ~run.touched
    /\ x_steps >= 2 /\ y_steps >= 3
    /\ Len(seq_moves) > 2 * x_steps

\* C8 (as stated): after each move command of a run, the initial move to
\* the start included, the sequencer goes on only once the controller has
\* reported exactly the commanded target, unless the stop flag is set.
C8_ProceedsOnlyOnArrival ==
    (pc \in {"after_start", "arrived"} /\ ~stop_imaging)
        => (run.arrived /\ run.reported = cmd_target)

\* C9: in manual mode the sequencer leaves its wait, and so sends the next
\* move, only after Continue or a stop request, and the wait opens with the
\* prompt; in automatic mode it goes from the arrival straight to the
\* capture, opening no prompt, and the capture takes both photos whenever
\* the camera is connected.
C9_ManualWaitsAutoCaptures ==
    [][ /\ (pc = "wait" /\ pc' # "wait") => (run.continued \/ stop_imaging)
        /\ pc = "wait" => (seq_moves' = seq_moves /\ cmd_target' = cmd_target)
        /\ (pc = "arrived" /\ pc' # "arrived" /\ ~stop_imaging /\ ~auto_capture)
              => (pc' = "wait" /\ waiting_for_photo' /\ dialogs' = dialogs + 1)
        /\ (pc = "arrived" /\ pc' # "arrived" /\ ~stop_imaging /\ auto_capture)
              => /\ pc' = "capture"
                 /\ waiting_for_photo' = waiting_for_photo
                 /\ dialogs' = dialogs
        /\ (pc = "capture" /\ pc' # "capture" /\ camera_connected)
              => (run'.captured /\ pc' \in {"col_begin", "row_end"})
      ]_vars

\* A manual wait has been released by Continue, with no stop requested.
C9_Witness ==
    /\ run.mode = "manual" /\ run.continued
    /\ ~stop_imaging
    /\ pc \in {"col_begin", "row_end"}

\* C10: once the stop flag has been true in a run, the thread sends at most
\* one more move, takes at most one more capture, and passes the stop check
\* at the head of a position never again.
C10_BoundedCancel ==
    /\ run.moves_after <= 1
    /\ run.caps_after <= 1
    /\ run.begun_after = 0

\* A stop raised between the stop check and the move: one more move was sent
\* and the run then ended as stopped.
C10_Witness ==
    /\ run.stop_seen
    /\ run.moves_after = 1
    /\ run.outcome = "stopped"

\* C11: at most one imaging worker thread lives at any time; the worker is
\* in its code only while is_imaging is true (once it has cleared the flag
\* it is gone and sends nothing); and while is_imaging is true no step
\* starts a worker or clears the stop flag, so start_imaging_sequence has
\* no effect during a run.
C11_OneWorker ==
    /\ [](/\ workers <= 1
          /\ pc # "idle" => (is_imaging /\ workers = 1)
          /\ pc = "idle" => workers = 0)
    /\ [][ /\ is_imaging => (workers' <= workers /\ (stop_imaging => stop_imaging'))
           /\ (~is_imaging /\ ~is_imaging')
                 => (seq_moves' = seq_moves /\ cmd_target' = cmd_target)
         ]_vars

\* A second run has been started after an earlier run, which reached at
\* least one position, had ended.
C11_Witness ==
    /\ workers = 1
    /\ pc = "filter"
    /\ image_count > 0

\* C12 (as stated): under any sequence of connect and disconnect actions at
\* most one gantry connect thread exists at a time, and at most one
\* position-polling thread runs at a time.
C12_OneConnectOnePoller == connect_threads <= 1 /\ pollers <= 1

\* C13: when a command of the imaging thread to the motion controller fails
\* (here: the gantry has been disconnected), that step ends the run: error
\* status, is_imaging false, the thread gone, nothing sent; and a run that
\* ended in error stays ended.
C13_FailEndsRun ==
    /\ [][ ( /\ \/ pc \in {"move_start", "move"}
                \/ pc \in {"poll_start", "poll"} /\ ~stop_imaging
             /\ ~connected
             /\ pc' # pc )
           => /\ pc' = "idle" /\ ~is_imaging' /\ workers' = 0
              /\ status' = "Imaging error"
              /\ run'.outcome = "error"
              /\ ctl_target' = ctl_target
              /\ seq_moves' = seq_moves
         ]_vars
    /\ [](run.outcome = "error" => (pc = "idle" /\ ~is_imaging /\ workers = 0))

\* A run has ended in error after it had sent at least one grid move.
C13_Witness ==
    /\ run.outcome = "error"
    /\ ~connected
    /\ Len(seq_moves) >= 1

\* C14 (as stated): an operation never ends with a success status after one
\* of its hardware commands failed; here take_both_photos, whose camera
\* command has just failed, does not go on to report success.
C14_NoSuccessAfterFailure ==
    [][ (pc = "capture" /\ shooting /\ camera_info = "Command error" /\ pc' # pc)
          => camera_info' # "Successfully captured both photos"
      ]_vars

\* C15 (as stated): a run ends Complete only if the stop flag was never set
\* during it and the reported image_count equals x_steps * y_steps; a run
\* whose stop flag was set ends Stopped.
C15_CompleteMeansAll ==
    [][ (pc = "finish" /\ pc' = "idle")
          => IF run.stop_seen
             THEN status' = "Imaging sequence stopped"
             ELSE /\ status' = "Imaging sequence complete"
                  /\ image_count = x_steps * y_steps
      ]_vars

\* The state of the sequence as the user sees it: what the imaging thread is
\* doing or, when there is none, how the last run ended.
C16_SeqState ==
    IF pc = "idle"
    THEN CASE run.outcome = "none"     -> "Idle"
           [] run.outcome = "complete" -> "Complete"
           [] run.outcome = "stopped"  -> "Stopped"
           [] OTHER                    -> "Error"
    ELSE IF pc \in {"filter", "move_start", "poll_start", "after_start"}
    THEN "MovingToStart"
    ELSE "Running"

\* The transitions of the sequence state the specification lists, each with
\* its cause: a user start from rest, the report of the start position, a
\* stop request or limit violation (the stop flag), the end of the grid.
C16_Listed(from, to) ==
    \/ /\ from \in {"Idle", "Complete", "Stopped", "Error"} /\ to = "MovingToStart"
       /\ ui_events' = ui_events + 1 /\ ~is_imaging /\ is_imaging'
    \/ /\ from = "MovingToStart" /\ to = "Running"
       /\ run.arrived /\ ~stop_imaging /\ is_imaging'
    \/ /\ from \in {"MovingToStart", "Running"} /\ to = "Stopped"
       /\ stop_imaging /\ ~is_imaging'
    \/ /\ from = "Running" /\ to = "Complete"
       /\ pc = "finish" /\ ~stop_imaging /\ ~is_imaging'

\* C16 (as stated): the sequence state moves only Idle -> MovingToStart ->
\* Running -> Complete or Stopped, or MovingToStart -> Stopped, each through
\* a user start or stop, a limit violation, arrival or the end of the grid.
C16_OnlyListedTransitions ==
    [][ C16_SeqState' # C16_SeqState => C16_Listed(C16_SeqState, C16_SeqState') ]_vars

\* C16 (amended): the listed transitions, and besides them MovingToStart or
\* Running -> Error (is_imaging false, status "Imaging error") when a command
\* to the controller fails; Running is entered only after a report equal to
\* the start position.
C16_TransitionsWithError ==
    [][ C16_SeqState' # C16_SeqState
          => \/ C16_Listed(C16_SeqState, C16_SeqState')
             \/ /\ C16_SeqState \in {"MovingToStart", "Running"}
                /\ C16_SeqState' = "Error"
                /\ ~connected /\ ~is_imaging' /\ status' = "Imaging error"
      ]_vars

\* A run that reached Running, counted an image and then ended in Error.
C16_Witness ==
    /\ C16_SeqState = "Error"
    /\ status = "Imaging error"
    /\ image_count >= 1

\* C17 (as stated): every update of a UI variable caused by the imaging
\* thread is scheduled onto the UI thread, none is made by the thread itself.
C17_AllUiUpdatesScheduled == run.direct_ui = {}

\* C18 (as stated): once emergency_stop has sent ST during a run, the
\* imaging thread sends no further move command.
C18_NoMoveAfterST == run.pa_after_st = 0

\* The assumptions of C19 do not hold: the stage was sent elsewhere than the
\* imaging thread's last target, or the user can no longer answer the prompt.
C19_AssumptionVoid ==
    \/ ctl_target # cmd_target
    \/ pc = "wait" /\ ui_events = MaxUiEvents

\* C19 (as stated): a started sequence always terminates with is_imaging
\* false, provided the controller reports each commanded target and the user
\* confirms each prompt.
C19_AlwaysTerminates == is_imaging ~> (~is_imaging \/ C19_AssumptionVoid)

\* A run is launched by this step.
C20_Launch == ~is_imaging /\ is_imaging'

\* C20: a run is launched (stop flag cleared, is_imaging set, worker
\* started) only by a user action taken when the gantry and the camera are
\* connected, no run is in progress, a start position is set and a grid is
\* calculated, and the user has confirmed; no other step of the UI thread
\* changes is_imaging, and no other step at all clears the stop flag or
\* starts a worker.
C20_LaunchOnlyWhenReady ==
    [][ /\ C20_Launch
          => /\ connected /\ camera_connected /\ start_set /\ has_plan
             /\ pc = "idle" /\ workers = 0
             /\ ui_events' = ui_events + 1
             /\ ~stop_imaging' /\ workers' = 1 /\ pc' = "filter"
             /\ run'.confirmed
        /\ (ui_events' # ui_events /\ is_imaging' # is_imaging) => C20_Launch
        /\ (stop_imaging /\ ~stop_imaging') => C20_Launch
        /\ workers' > workers => C20_Launch
      ]_vars

\* A run has just been launched after an earlier one was stopped: the stop
\* flag is clear again and the new worker has not yet taken a step.
C20_Witness ==
    /\ pc = "filter" /\ is_imaging /\ workers = 1
    /\ ~stop_imaging
    /\ status = "Imaging sequence stopped"

\* The arrow keys' steps: move_up, move_down, move_left, move_right.
C21_Deltas ==
    {<<0, step_size>>, <<0, -step_size>>, <<-step_size, 0>>, <<step_size, 0>>}

\* C21: a jog sends its move (status "Moving to X, Y") only when the gantry
\* is connected and the target, the displayed position plus the step, is
\* within both limits, and that target is what it sends; a jog whose target
\* exceeds a limit sends nothing and reports "Movement blocked by safety
\* limits"; no jog ever commands a target beyond the limits in force.
C21_JogWithinLimits ==
    /\ [][ /\ ( (ui_events' # ui_events /\ status' # status /\ status' = "Moving")
                => ( /\ connected
                     /\ ctl_target'[1] <= x_limit /\ ctl_target'[2] <= y_limit
                     /\ \E d \in C21_Deltas :
                            ctl_target' = <<current_x + d[1], current_y + d[2]>> ) )
            /\ ( ( /\ ui_events' # ui_events /\ status' # status
                   /\ status' = "Movement blocked by safety limits" )
                => ( /\ connected
                     /\ ctl_target' = ctl_target
                     /\ \E d \in C21_Deltas :
                            \/ current_x + d[1] > x_limit
                            \/ current_y + d[2] > y_limit ) )
          ]_vars
    /\ [](breach # "jog")

\* A jog has just been refused at the limit.
C21_Witness ==
    /\ status = "Movement blocked by safety limits"
    /\ connected
    /\ current_x + step_size > x_limit

\* C22: both limits are strictly positive in every state; a call of
\* apply_safety_limits sets them to the entered values when both entries
\* are whole numbers > 0 and the question was answered Yes, and leaves both
\* unchanged otherwise (an entry not positive, not a whole number, or the
\* question answered No).
C22_LimitsPositive ==
    /\ [](x_limit > 0 /\ y_limit > 0)
    /\ [][ IF /\ IsInt(x_limit_var') /\ IsInt(y_limit_var')
              /\ x_limit_var'[1] > 0 /\ y_limit_var'[1] > 0
              /\ ~limit_declined'
           THEN x_limit' = x_limit_var'[1] /\ y_limit' = y_limit_var'[1]
           ELSE x_limit' = x_limit /\ y_limit' = y_limit
         ]_vars

\* The limits were changed from their defaults, and a later call with a
\* non-positive entry has left them as they were.
C22_Witness ==
    /\ x_limit = step_size \div 2
    /\ IsInt(x_limit_var) /\ x_limit_var[1] <= 0
    /\ ~limit_declined

\* The imaging thread sends a move command in this step.
C23_MoveSent ==
    \/ pc = "move_start" /\ pc' = "poll_start"
    \/ pc = "move" /\ pc' = "poll"

C24_Cells0 ==
    LET p == run.plan0
    IN  { <<p[1] + i * p[5], p[2] + j * p[6]>> :
            i \in 0 .. (p[3] - 1), j \in 0 .. (p[4] - 1) }

\* C24 (as stated): the targets the imaging thread commands are cells of the
\* plan, from the start position, that were in effect when the run started,
\* whatever calculate_grid and set_start_position do meanwhile.
C24_PlanFixedDuringRun ==
    run.outcome # "none"
        => /\ \A k \in 1 .. Len(seq_moves) : seq_moves[k] \in C24_Cells0
           /\ (pc \in {"poll_start", "after_start"}
                  => cmd_target = <<run.plan0[1], run.plan0[2]>>)

\* C25 (as stated): while a run is in progress no handler of the UI thread
\* (jog, go-home, return-to-start) sends a move to the controller; the
\* emergency stop's ST is not a move.
C25_OnlyThreadMovesDuringRun ==
    [][ (is_imaging /\ ui_events' # ui_events /\ status' # "EMERGENCY STOP")
          => ctl_target' = ctl_target
      ]_vars

\* C26 (as stated): when calculate_grid's safety check passes for the start
\* position and the limits (start + dimension within both limits), every
\* target of the planned traversal is within the limits.
C26_CheckCoversGrid ==
    ( /\ has_plan /\ start_set
      /\ start_x + x_dimension <= x_limit
      /\ start_y + y_dimension <= y_limit )
    => \A c \in Cells : c[1] <= x_limit /\ c[2] <= y_limit

\* C27: at most one photo prompt is open at any time, and none is open when
\* the imaging thread enters a manual wait, so the prompt whose Continue
\* clears waiting_for_photo during a wait is the one that wait opened; the
\* thread leaves a wait only after that Continue or a stop request; while a
\* prompt is open the only user action is its Continue, and no run is
\* launched.
C27_ContinueIsOwn ==
    /\ [](dialogs <= 1)
    /\ [][ /\ (pc = "arrived" /\ pc' = "wait") => (dialogs = 0 /\ dialogs' = 1)
           /\ (pc = "wait" /\ pc' = "wait") => dialogs' <= dialogs
           /\ (pc = "wait" /\ pc' # "wait") => (run.continued \/ stop_imaging)
           /\ (~is_imaging /\ is_imaging') => dialogs = 0
           /\ (dialogs > 0 /\ ui_events' # ui_events) => dialogs' = dialogs - 1
         ]_vars

\* A run was stopped during a manual wait and left its prompt open.
C27_Witness ==
    /\ ~is_imaging /\ run.outcome = "stopped" /\ ~auto_capture
    /\ dialogs = 1 /\ waiting_for_photo

====
